---- MODULE Spec2Model ----
(***************************************************************************)
(* Twitter "blocks" integration blocks: TwitterUnblockUserBlock,           *)
(* TwitterGetBlockedUsersBlock and TwitterBlockUserBlock                   *)
(* (backend/blocks/twitter/users/blocks.py).                               *)
(*                                                                         *)
(* A run of a block is a generator: it builds a tweepy client, makes one   *)
(* vendor call, shapes the response and yields (name, value) outputs, or   *)
(* catches the exception and yields ("error", message).  The vendor and   *)
(* the credential object are the environment: what the vendor returns and  *)
(* whether a call raises is chosen nondeterministically.                   *)
(*                                                                         *)
(* Python values: None is <<>>, a present value x is <<x>>; a dict is a    *)
(* function on its keys; a list is a sequence.                             *)
(***************************************************************************)
EXTENDS Integers, Sequences, FiniteSets, TLC

VARIABLES
    blocked,     \* vendor side: the target ids the authenticating user blocks
    blocked0,    \* value of blocked when the current run was invoked
    pc,          \* position of the current run
    block,       \* which block is running
    input,       \* input_data of the current run
    calls,       \* vendor API calls made by the current run, in order
    response,    \* tweepy Response of client.get_blocked, None before it
    result,      \* value returned by the static helper, None before it
    exc,         \* the exception in flight, None if none
    outputs,     \* the (name, value) pairs the run has yielded, in order
    propagated   \* TRUE when an exception escaped run

vars == <<blocked, blocked0, pc, block, input, calls, response, result, exc,
          outputs, propagated>>

----------------------------------------------------------------------------
(* Bounds *)

MaxUsers == 2        \* longest page of users in a vendor response

----------------------------------------------------------------------------
(* Python values *)

None == <<>>
Some(x) == <<x>>

EmptyDict == [k \in {} |-> ""]

\* truthiness of a dict: non-empty
TruthyDict(d) == DOMAIN d # {}

\* truthiness of "dict | None"
TruthyOptDict(o) == o # None /\ TruthyDict(o[1])

\* truthiness of "list | None"
TruthyOptList(o) == o # None /\ Len(o[1]) > 0

\* truthiness of "str | None"
TruthyOptStr(o) == o # None /\ o[1] # ""

Digit == <<"0", "1", "2", "3", "4", "5", "6", "7", "8", "9">>

\* str(n) for a non-negative int
RECURSIVE str(_)
str(n) == IF n < 10 THEN Digit[n + 1]
          ELSE str(n \div 10) \o Digit[(n % 10) + 1]

----------------------------------------------------------------------------
(* Inputs and environment values *)

TargetUserIds == {"12345", "67890"}

MaxResultsInputs == {None, Some(10)}

PaginationTokenInputs == {None, Some(""), Some("tok1")}

ExpansionsInputs == {None, Some("pinned_tweet_id")}

TweetFieldsInputs == {None, Some("created_at")}

UserFieldsInputs == {None, Some("username")}

\* tweepy User objects a response may carry
Users == { [id |-> 12345, username |-> "testuser1"],
           [id |-> 67890, username |-> "testuser2"] }

UserLists == UNION { [1..n -> Users] : n \in 0..MaxUsers }

\* response.data: None or a list of users
ResponseData == {None} \cup { Some(l) : l \in UserLists }

MetaKeys == {"next_token", "previous_token"}

MetaDicts == { EmptyDict,
               [k \in {"next_token"} |-> ""],
               [k \in {"next_token"} |-> "tok2"],
               [k \in {"previous_token"} |-> "tok0"],
               [k \in MetaKeys |-> IF k = "next_token" THEN "tok2" ELSE "tok0"] }

\* response.meta: None or a dict
ResponseMeta == {None} \cup { Some(m) : m \in MetaDicts }

\* response.includes: a dict of expansion objects, empty when none was asked
ResponseIncludes == { EmptyDict,
                      [k \in {"users"} |->
                          << [id |-> 555, username |-> "pinned"] >>] }

TweepyExceptions == { [type |-> "Forbidden", msg |-> "403 Forbidden"],
                      [type |-> "TooManyRequests", msg |-> "429 Too Many Requests"] }

OtherExceptions == { [type |-> "ValueError", msg |-> "bad value"] }

NoBlockedUsers == [type |-> "TweepyException", msg |-> "No blocked users found"]

\* tweepy.TweepyException and its subclasses
TweepyTypes == {"TweepyException", "Forbidden", "TooManyRequests"}

----------------------------------------------------------------------------
(* The vendor, as the blocks' docstrings describe it *)

\* client.block / client.unblock that completes: blocking adds the target,
\* unblocking removes it and is a no-op for a target that is not blocked
VendorEffect(method, b, t) ==
    IF method = "block" THEN b \cup {t}
    ELSE IF method = "unblock" THEN b \ {t}
    ELSE b

----------------------------------------------------------------------------
(* Collaborators of the repository that blocks.py calls *)

\* UserExpansionsBuilder(params).add_expansions(..).add_tweet_fields(..)
\*     .add_user_fields(..).build(): adds the requested field lists to the
\* request parameters and leaves the parameters it was given in place
UserExpansionsBuilder_build(params, expansions, tweet_fields, user_fields) ==
    LET p1 == IF expansions # None
              THEN params @@ ("expansions" :> expansions[1]) ELSE params
        p2 == IF tweet_fields # None
              THEN p1 @@ ("tweet_fields" :> tweet_fields[1]) ELSE p1
    IN  IF user_fields # None
        THEN p2 @@ ("user_fields" :> user_fields[1]) ELSE p2

\* IncludesSerializer.serialize(includes): an empty dict for empty includes,
\* else a dict with the same keys whose objects are turned into plain dicts
IncludesSerializer_serialize(includes) ==
    IF ~TruthyDict(includes) THEN EmptyDict
    ELSE [k \in DOMAIN includes |->
            [i \in 1..Len(includes[k]) |->
                [id |-> str(includes[k][i].id),
                 username |-> includes[k][i].username]]]

\* handle_tweepy_exception(e): one human-readable string per exception
handle_tweepy_exception(e) ==
    IF e.type \in TweepyTypes
    THEN "Twitter API error: " \o e.msg
    ELSE "Unexpected error: " \o e.msg

----------------------------------------------------------------------------
(* blocks.py: the static helpers *)

\* variant: unblock_user calls client.block
unblock_user_method_block == "block"

\* the vendor method unblock_user calls
unblock_user_method == "unblock"

\* the vendor method block_user calls
block_user_method == "block"

\* "return True" of unblock_user
unblock_user_return == TRUE

\* variant: block_user returns False
block_user_return_false == FALSE

\* "return True" of block_user
block_user_return == TRUE

\* variant: the helper retries the vendor call instead of re-raising
helper_reraise_retry == "call"

\* "except tweepy.TweepyException: raise" of the helpers: the exception
\* leaves the helper and reaches the except clause of run
helper_reraise == "except"

\* variant: the pagination token is passed as given
pagination_param_identity(pagination_token) == pagination_token

\* "pagination_token": None if pagination_token == "" else pagination_token
pagination_param(pagination_token) ==
    IF pagination_token = Some("") THEN None ELSE pagination_token

\* the params dict of get_blocked_users before the builder
get_blocked_params(max_results, pagination_token) ==
    [max_results |-> max_results,
     pagination_token |-> pagination_param(pagination_token),
     user_auth |-> FALSE]

\* for user in response.data: user_ids.append(str(user.id))
collect_user_ids(data) ==
    IF TruthyOptList(data)
    THEN [i \in 1..Len(data[1]) |-> str(data[1][i].id)]
    ELSE <<>>

\* variant: the usernames are collected in reverse order
collect_usernames_reversed(data) ==
    IF TruthyOptList(data)
    THEN [i \in 1..Len(data[1]) |-> data[1][Len(data[1]) + 1 - i].username]
    ELSE <<>>

\* for user in response.data: usernames.append(user.username)
collect_usernames(data) ==
    IF TruthyOptList(data)
    THEN [i \in 1..Len(data[1]) |-> data[1][i].username]
    ELSE <<>>

\* meta = {}; if response.meta: meta = response.meta
shape_meta(rmeta) == IF TruthyOptDict(rmeta) THEN rmeta[1] ELSE EmptyDict

\* next_token = None; if response.meta and "next_token" in meta: ...
shape_next_token(rmeta) ==
    IF TruthyOptDict(rmeta) /\ "next_token" \in DOMAIN rmeta[1]
    THEN Some(rmeta[1]["next_token"])
    ELSE None

\* variant: get_blocked_users returns also when no user was found
has_users_always(user_ids, usernames) == TRUE

\* "if user_ids and usernames" of get_blocked_users
has_users(user_ids, usernames) == Len(user_ids) > 0 /\ Len(usernames) > 0

----------------------------------------------------------------------------
(* blocks.py: run *)

\* variant: run catches tweepy.TweepyException only
run_catches_tweepy_only(e) == e.type \in TweepyTypes

\* "except Exception as e" of run catches every exception of the model
run_catches(e) == TRUE

\* variant: run yields nothing on success
success_outputs_none(success) == <<>>

\* the yields of TwitterUnblockUserBlock.run / TwitterBlockUserBlock.run
success_outputs(success) == << <<"success", success>> >>

\* variant: meta is yielded before included
get_blocked_outputs_meta_first(r) ==
       (IF Len(r.user_ids) > 0 THEN << <<"user_ids", r.user_ids>> >> ELSE <<>>)
    \o (IF Len(r.usernames) > 0 THEN << <<"usernames_", r.usernames>> >> ELSE <<>>)
    \o (IF TruthyDict(r.meta) THEN << <<"meta", r.meta>> >> ELSE <<>>)
    \o (IF TruthyDict(r.included) THEN << <<"included", r.included>> >> ELSE <<>>)
    \o (IF TruthyOptStr(r.next_token)
        THEN << <<"next_token", r.next_token[1]>> >> ELSE <<>>)

\* the yields of TwitterGetBlockedUsersBlock.run, in program order
get_blocked_outputs(r) ==
       (IF Len(r.user_ids) > 0 THEN << <<"user_ids", r.user_ids>> >> ELSE <<>>)
    \o (IF Len(r.usernames) > 0 THEN << <<"usernames_", r.usernames>> >> ELSE <<>>)
    \o (IF TruthyDict(r.included) THEN << <<"included", r.included>> >> ELSE <<>>)
    \o (IF TruthyDict(r.meta) THEN << <<"meta", r.meta>> >> ELSE <<>>)
    \o (IF TruthyOptStr(r.next_token)
        THEN << <<"next_token", r.next_token[1]>> >> ELSE <<>>)

----------------------------------------------------------------------------
(* State machine *)

Init ==
    /\ blocked = {}
    /\ blocked0 = {}
    /\ pc = "idle"
    /\ block = "none"
    /\ input = None
    /\ calls = <<>>
    /\ response = None
    /\ result = None
    /\ exc = None
    /\ outputs = <<>>
    /\ propagated = FALSE

\* the platform invokes run of block b with input_data i
Invoke(b, i) ==
    /\ pc \in {"idle", "done"}
    /\ pc' = "client"
    /\ block' = b
    /\ input' = i
    /\ blocked0' = blocked
    /\ calls' = <<>>
    /\ response' = None
    /\ result' = None
    /\ exc' = None
    /\ outputs' = <<>>
    /\ propagated' = FALSE
    /\ UNCHANGED blocked

TwitterUnblockUserBlock_run ==
    \E t \in TargetUserIds : Invoke("unblock", [target_user_id |-> t])

TwitterBlockUserBlock_run ==
    \E t \in TargetUserIds : Invoke("block", [target_user_id |-> t])

TwitterGetBlockedUsersBlock_run ==
    \E mr \in MaxResultsInputs, tok \in PaginationTokenInputs,
       ex \in ExpansionsInputs, tf \in TweetFieldsInputs,
       uf \in UserFieldsInputs :
        Invoke("get_blocked",
               [max_results |-> mr, pagination_token |-> tok,
                expansions |-> ex, tweet_fields |-> tf, user_fields |-> uf])

\* client = tweepy.Client(bearer_token=credentials.access_token
\*     .get_secret_value()): builds the client or raises
tweepy_Client ==
    /\ pc = "client"
    /\ \/ pc' = "call" /\ UNCHANGED exc
       \/ \E e \in OtherExceptions : exc' = Some(e) /\ pc' = "except"
    /\ UNCHANGED <<blocked, blocked0, block, input, calls, response, result,
                   outputs, propagated>>

\* the one vendor call of block_user / unblock_user, then "return True"
VendorWrite(b, method, ret) ==
    /\ pc = "call"
    /\ block = b
    /\ LET call == [method |-> method,
                    params |-> [target_user_id |-> input.target_user_id,
                                user_auth |-> FALSE]]
       IN  \/ /\ calls' = Append(calls, call @@ ("ok" :> TRUE))
              /\ blocked' = VendorEffect(method, blocked, input.target_user_id)
              /\ result' = Some(ret)
              /\ pc' = "yield"
              /\ UNCHANGED exc
           \/ \E e \in TweepyExceptions \cup OtherExceptions :
                 /\ calls' = Append(calls, call @@ ("ok" :> FALSE))
                 /\ exc' = Some(e)
                 /\ pc' = helper_reraise
                 /\ UNCHANGED <<blocked, result>>
    /\ UNCHANGED <<blocked0, block, input, response, outputs, propagated>>

unblock_user == VendorWrite("unblock", unblock_user_method, unblock_user_return)

block_user == VendorWrite("block", block_user_method, block_user_return)

\* get_blocked_users up to "response = client.get_blocked(**params)"
get_blocked_users_call ==
    /\ pc = "call"
    /\ block = "get_blocked"
    /\ LET params == UserExpansionsBuilder_build(
                         get_blocked_params(input.max_results,
                                            input.pagination_token),
                         input.expansions, input.tweet_fields,
                         input.user_fields)
           call == [method |-> "get_blocked", params |-> params]
       IN  \/ \E d \in ResponseData, m \in ResponseMeta,
                 inc \in ResponseIncludes :
                 /\ calls' = Append(calls, call @@ ("ok" :> TRUE))
                 /\ response' = Some([data |-> d, meta |-> m,
                                      includes |-> inc])
                 /\ pc' = "shape"
                 /\ UNCHANGED exc
           \/ \E e \in TweepyExceptions \cup OtherExceptions :
                 /\ calls' = Append(calls, call @@ ("ok" :> FALSE))
                 /\ exc' = Some(e)
                 /\ pc' = helper_reraise
                 /\ UNCHANGED response
    /\ UNCHANGED <<blocked, blocked0, block, input, result, outputs, propagated>>

\* get_blocked_users after the vendor call: serialize the includes, collect
\* ids and usernames, take meta and next_token, return or raise
get_blocked_users_shape ==
    /\ pc = "shape"
    /\ \/ LET inc == IncludesSerializer_serialize(response[1].includes)
                 user_ids == collect_user_ids(response[1].data)
                 usernames == collect_usernames(response[1].data)
             IN  IF has_users(user_ids, usernames)
                 THEN /\ result' = Some([included |-> inc,
                                         meta |-> shape_meta(response[1].meta),
                                         user_ids |-> user_ids,
                                         usernames |-> usernames,
                                         next_token |->
                                            shape_next_token(response[1].meta)])
                      /\ pc' = "yield"
                      /\ UNCHANGED exc
                 ELSE /\ exc' = Some(NoBlockedUsers)
                      /\ pc' = helper_reraise
                      /\ UNCHANGED result
       \/ \E e \in OtherExceptions :   \* the serializer raises
             /\ exc' = Some(e)
             /\ pc' = "except"
             /\ UNCHANGED result
    /\ UNCHANGED <<blocked, blocked0, block, input, calls, response, outputs,
                   propagated>>

\* the try body of run after the helper returned: the yields
run_yield ==
    /\ pc = "yield"
    /\ outputs' = outputs \o (IF block = "get_blocked"
                              THEN get_blocked_outputs(result[1])
                              ELSE success_outputs(result[1]))
    /\ pc' = "done"
    /\ UNCHANGED <<blocked, blocked0, block, input, calls, response, result,
                   exc, propagated>>

\* except Exception as e: yield "error", handle_tweepy_exception(e)
run_except ==
    /\ pc = "except"
    /\ IF run_catches(exc[1])
       THEN /\ outputs' = Append(outputs,
                                 <<"error", handle_tweepy_exception(exc[1])>>)
            /\ UNCHANGED propagated
       ELSE /\ propagated' = TRUE
            /\ UNCHANGED outputs
    /\ pc' = "done"
    /\ UNCHANGED <<blocked, blocked0, block, input, calls, response, result,
                   exc>>

Next ==
    \/ TwitterUnblockUserBlock_run
    \/ TwitterBlockUserBlock_run
    \/ TwitterGetBlockedUsersBlock_run
    \/ tweepy_Client
    \/ unblock_user
    \/ block_user
    \/ get_blocked_users_call
    \/ get_blocked_users_shape
    \/ run_yield
    \/ run_except

Spec == Init /\ [][Next]_vars

----------------------------------------------------------------------------
(* Properties *)

\* the names of the outputs the run has yielded, in order
OutputNames == [i \in 1..Len(outputs) |-> outputs[i][1]]

\* the run is over
Done == pc = "done"

\* the vendor call of the run was made and completed without raising
VendorCompleted == Len(calls) > 0 /\ calls[Len(calls)].ok

\* the vendor call of the run was made and raised
VendorFailed == Len(calls) > 0 /\ ~calls[Len(calls)].ok

\* the run yielded exactly ("success", True)
OnlySuccessTrue ==
    /\ Len(outputs) = 1
    /\ outputs[1][1] = "success"
    /\ outputs[1][2] = TRUE

\* the run yielded exactly one output, ("error", <string>)
OnlyError ==
    /\ Len(outputs) = 1
    /\ outputs[1][1] = "error"
    /\ outputs[1][2] \in STRING

\* a listing run that ended without an exception
ListingSucceeded == Done /\ block = "get_blocked" /\ exc = None

\* C1: a block or unblock run whose vendor call completed without raising
\* has yielded exactly one output, ("success", True), and no error.
C1_SuccessWhenVendorCompletes ==
    (Done /\ block \in {"block", "unblock"} /\ VendorCompleted)
        => (OnlySuccessTrue /\ ~propagated)

C1_Witness ==
    /\ Done
    /\ block = "block"
    /\ VendorCompleted
    /\ OutputNames = <<"success">>

\* C2: a listing run whose vendor response has no users (data None or empty)
\* has yielded exactly an error and none of the payload outputs, whatever
\* meta and includes the response carries.
C2_NoUsersIsError ==
    (Done /\ block = "get_blocked" /\ response # None
          /\ ~TruthyOptList(response[1].data))
        => (OnlyError /\ \A i \in 1..Len(outputs) :
               outputs[i][1] \notin {"user_ids", "usernames_", "included",
                                     "meta", "next_token"})

C2_Witness ==
    /\ Done
    /\ block = "get_blocked"
    /\ response # None
    /\ response[1].data = Some(<<>>)
    /\ TruthyOptDict(response[1].meta)
    /\ TruthyDict(response[1].includes)
    /\ OutputNames = <<"error">>

\* C3: after a successful listing, user_ids and usernames_ are as long as the
\* vendor's page and position i holds the string form of the id and the
\* username of the i-th user of the page.
C3_IdsAndUsernamesAligned ==
    ListingSucceeded =>
        LET page == response[1].data[1] IN
        /\ Len(outputs) >= 2
        /\ outputs[1][1] = "user_ids"
        /\ outputs[2][1] = "usernames_"
        /\ Len(outputs[1][2]) = Len(page)
        /\ Len(outputs[2][2]) = Len(page)
        /\ \A i \in 1..Len(page) :
              /\ outputs[1][2][i] = str(page[i].id)
              /\ outputs[2][2][i] = page[i].username

C3_Witness ==
    /\ ListingSucceeded
    /\ Len(response[1].data[1]) = 2
    /\ response[1].data[1][1] # response[1].data[1][2]
    /\ outputs[1][2] = <<"67890", "12345">>
    /\ outputs[2][2] = <<"testuser2", "testuser1">>

\* C4: no exception escapes run, and a run in which an exception was raised
\* has yielded exactly one output, ("error", <string>).
C4_FailuresBecomeOneError ==
    /\ ~propagated
    /\ (Done /\ exc # None) => OnlyError

C4_Witness ==
    /\ Done
    /\ block = "get_blocked"
    /\ exc # None
    /\ exc[1].type = "ValueError"
    /\ response # None
    /\ OutputNames = <<"error">>

\* C5: a completed run has yielded at least one output, and never an error
\* together with a payload output.
C5_SuccessXorError ==
    Done =>
        /\ Len(outputs) >= 1
        /\ ~(\E i, j \in 1..Len(outputs) :
                outputs[i][1] = "error" /\ outputs[j][1] # "error")

C5_Witness ==
    /\ Done
    /\ block = "unblock"
    /\ OutputNames = <<"success">>

\* position of an output name in the order of the yields of the listing run
OutputRank ==
    [n \in {"user_ids", "usernames_", "included", "meta", "next_token"} |->
        CASE n = "user_ids" -> 1
          [] n = "usernames_" -> 2
          [] n = "included" -> 3
          [] n = "meta" -> 4
          [] n = "next_token" -> 5]

\* C6: a successful listing yields user_ids, usernames_, included, meta,
\* next_token in that order, each at most once; included, meta and next_token
\* only when the value is non-empty; and exactly user_ids, usernames_ when
\* included and meta are empty and next_token is None.
C6_ListingOutputOrder ==
    ListingSucceeded =>
        LET r == result[1] IN
        /\ \A i \in 1..Len(outputs) : outputs[i][1] \in DOMAIN OutputRank
        /\ \A i, j \in 1..Len(outputs) :
              i < j => OutputRank[outputs[i][1]] < OutputRank[outputs[j][1]]
        /\ \A i \in 1..Len(outputs) :
              /\ outputs[i][1] = "included" => TruthyDict(r.included)
              /\ outputs[i][1] = "meta" => TruthyDict(r.meta)
              /\ outputs[i][1] = "next_token" =>
                    (r.next_token # None /\ r.next_token[1] # "")
        /\ (~TruthyDict(r.included) /\ ~TruthyDict(r.meta)
                /\ r.next_token = None)
              => OutputNames = <<"user_ids", "usernames_">>

C6_Witness ==
    /\ ListingSucceeded
    /\ OutputNames = <<"user_ids", "usernames_", "included", "meta",
                       "next_token">>

C8_AtMostOneVendorCall ==
    /\ Len(calls) <= 1
    /\ (Done /\ VendorFailed) => OnlyError

C8_Witness ==
    /\ Done
    /\ block = "get_blocked"
    /\ Len(calls) = 1
    /\ VendorFailed
    /\ OutputNames = <<"error">>

\* C9: the pagination token passed to client.get_blocked is None exactly
\* when the input token is "" or None and is the input token otherwise;
\* max_results is passed unchanged and user_auth is False.
C9_ListingRequestParams ==
    (block = "get_blocked" /\ Len(calls) > 0) =>
        LET p == calls[1].params
            tok == input.pagination_token
        IN  /\ (p.pagination_token = None) <=> (tok \in {None, Some("")})
            /\ tok \notin {None, Some("")} => p.pagination_token = tok
            /\ p.max_results = input.max_results
            /\ p.user_auth = FALSE

C9_Witness ==
    /\ block = "get_blocked"
    /\ Len(calls) = 1
    /\ input.pagination_token = Some("")
    /\ calls[1].params.pagination_token = None

====
